---- MODULE Spec2Model ----
(***************************************************************************)
(* Model of the service scaffold: app/config/settings.py (configuration    *)
(* resolution at import), app/main.py (application object, lifespan hooks, *)
(* GET /) and app/routes/api/health.py (GET /health).                      *)
(*                                                                         *)
(* Strings are TLA+ strings.  A layer of configuration (the process        *)
(* environment, the base .env file, one .env.<ENVIRONMENT> file) is a       *)
(* function whose DOMAIN is the set of keys the layer sets.                *)
(***************************************************************************)
EXTENDS Integers, Sequences, FiniteSets, TLC

VARIABLES
    pc,             \* position of the process: see Stages
    startenv,       \* the environment the process was started with
    osenv,          \* os.environ
    dotenv,         \* content of the base .env file
    envfiles,       \* content of .env.<name>, for each name of EnvNames
    ENVIRONMENT,    \* settings.py module variable ENVIRONMENT
    classDefaults,  \* class Settings: field defaults, evaluated at class definition
    env_file,       \* class Settings: model_config["env_file"]
    settings,       \* settings.py module variable settings
    app,            \* main.py module variable app
    now,            \* the system's wall clock (UTC), an integer instant
    startTime,      \* wall-clock reading when the process started
    clockEpoch,     \* number of times the wall clock has been set back so far
    responses,      \* responses received so far by the (single, sequential) client
    startupLogs,    \* number of times lifespan logged "Starting ..."
    shutdownLogs,   \* number of times lifespan logged "Shut down of ... completed"
    exitPath,       \* how the serving scope was left
    edits           \* number of changes made to the configuration sources after start

vars == <<pc, startenv, osenv, dotenv, envfiles, ENVIRONMENT, classDefaults, env_file,
          settings, app, now, startTime, clockEpoch, responses, startupLogs,
          shutdownLogs, exitPath, edits>>

configVars == <<startenv, osenv, dotenv, envfiles>>
moduleVars == <<ENVIRONMENT, classDefaults, env_file>>
clockVars == <<now, startTime, clockEpoch>>
hookVars == <<startupLogs, shutdownLogs, exitPath>>

----------------------------------------------------------------------------
(* Bounds of the model *)

MaxEntries == 3     \* keys set over all configuration layers (SpecConfig)
MaxClock == 3       \* wall-clock instants are 0..MaxClock
MaxSetBacks == 1    \* times the wall clock is set back
MaxRequests == 2    \* responses the client collects
MaxEdits == 1       \* changes to the configuration sources after start

----------------------------------------------------------------------------
(* Configuration domain *)

Fields == {"SERVICE_NAME", "SERVICE_VERSION", "SERVICE_DESCRIPTION",
           "HOST", "PORT", "LOG_LEVEL"}

Keys == Fields \cup {"ENVIRONMENT"}

EnvNames == {"development", "production"}

ValuesOf ==
    [k \in Keys |->
        CASE k = "SERVICE_NAME"        -> {"svc-a", "svc-b"}
          [] k = "SERVICE_VERSION"     -> {"v2.3.4", "v1.0.0"}
          [] k = "SERVICE_DESCRIPTION" -> {"desc-a", "desc-b"}
          [] k = "HOST"                -> {"127.0.0.1", "localhost"}
          [] k = "PORT"                -> {"9000", "80", "abc"}
          [] k = "LOG_LEVEL"           -> {"INFO", "ERROR"}
          [] k = "ENVIRONMENT"         -> EnvNames]

\* An order on the keys, so that each layer is built once.
KeyIndex ==
    [k \in Keys |->
        CASE k = "SERVICE_NAME" -> 1 [] k = "SERVICE_VERSION" -> 2
          [] k = "SERVICE_DESCRIPTION" -> 3 [] k = "HOST" -> 4
          [] k = "PORT" -> 5 [] k = "LOG_LEVEL" -> 6 [] k = "ENVIRONMENT" -> 7]

EmptyLayer == [k \in {} |-> ""]

WithKey(l, k, v) == [j \in DOMAIN l \cup {k} |-> IF j = k THEN v ELSE l[j]]

Size(l) == Cardinality(DOMAIN l)

\* The layers that set at most n keys.
RECURSIVE LayersUpTo(_)
LayersUpTo(n) ==
    IF n = 0 THEN {EmptyLayer}
    ELSE LET P == LayersUpTo(n - 1)
         IN  P \cup UNION {UNION {{WithKey(l, k, v) : v \in ValuesOf[k]} :
                                    k \in {j \in Keys : \A i \in DOMAIN l :
                                                KeyIndex[i] < KeyIndex[j]}} :
                             l \in P}

LayerTable == [n \in 0..(MaxEntries + 1) |-> LayersUpTo(n)]

----------------------------------------------------------------------------
(* str -> int, as pydantic validates an int field given a str *)

Chars(s) ==
    CASE s = "9000" -> <<"9", "0", "0", "0">>
      [] s = "80"   -> <<"8", "0">>
      [] s = "abc"  -> <<"a", "b", "c">>

Digit == [c \in {"0", "1", "2", "3", "4", "5", "6", "7", "8", "9"} |->
            CASE c = "0" -> 0 [] c = "1" -> 1 [] c = "2" -> 2 [] c = "3" -> 3
              [] c = "4" -> 4 [] c = "5" -> 5 [] c = "6" -> 6 [] c = "7" -> 7
              [] c = "8" -> 8 [] c = "9" -> 9]

IsIntStr(s) ==
    LET cs == Chars(s)
    IN  Len(cs) > 0 /\ \A i \in 1..Len(cs) : cs[i] \in DOMAIN Digit

RECURSIVE DigitsToInt(_)
DigitsToInt(cs) ==
    IF cs = <<>> THEN 0
    ELSE DigitsToInt(SubSeq(cs, 1, Len(cs) - 1)) * 10 + Digit[cs[Len(cs)]]

StrToInt(s) == DigitsToInt(Chars(s))

----------------------------------------------------------------------------
(* app/config/settings.py *)

\* The positions of the process: the statements of the import of settings.py,
\* the creation of app, the start of the server, and its ends.
Stages == {"load_dotenv", "ENVIRONMENT", "class_Settings", "Settings()",
           "create_app", "run", "serving", "stopped", "failed"}

Unbound == "<unbound>"

NoSettings == [constructed |-> FALSE]

NoApp == [created |-> FALSE]

getenv(env, key, default) == IF key \in DOMAIN env THEN env[key] ELSE default

\* Mutant: load_dotenv(override=True).
dotenv_merge_override(env, file) ==
    [k \in DOMAIN env \cup DOMAIN file |->
        IF k \in DOMAIN file THEN file[k] ELSE env[k]]

\* load_dotenv(): every key of .env that os.environ does not hold is added to it
\* (override defaults to False).
dotenv_merge(env, file) ==
    [k \in DOMAIN env \cup DOMAIN file |->
        IF k \in DOMAIN env THEN env[k] ELSE file[k]]

load_dotenv ==
    /\ pc = "load_dotenv"
    /\ osenv' = dotenv_merge(osenv, dotenv)
    /\ pc' = "ENVIRONMENT"
    /\ UNCHANGED <<startenv, dotenv, envfiles, moduleVars, settings, app,
                   clockVars, responses, hookVars, edits>>

read_ENVIRONMENT ==
    /\ pc = "ENVIRONMENT"
    /\ ENVIRONMENT' = getenv(osenv, "ENVIRONMENT", "development")
    /\ pc' = "class_Settings"
    /\ UNCHANGED <<configVars, classDefaults, env_file, settings, app,
                   clockVars, responses, hookVars, edits>>

\* The class body: the defaults are evaluated once, here.
FieldDefaults(env) ==
    [SERVICE_NAME        |-> "Service Name",
     SERVICE_VERSION     |-> getenv(env, "SERVICE_VERSION", "v0.0.1"),
     SERVICE_DESCRIPTION |-> "Service Description",
     HOST                |-> "0.0.0.0",
     PORT                |-> 8010,
     LOG_LEVEL           |-> "DEBUG"]

\* Mutant: unknown keys of the dotenv file are errors.
model_config_extra_forbid == "forbid"

model_config_extra == "ignore"

class_Settings ==
    /\ pc = "class_Settings"
    /\ classDefaults' = FieldDefaults(osenv)
    /\ env_file' = <<".env", ENVIRONMENT>>
    /\ pc' = "Settings()"
    /\ UNCHANGED <<configVars, ENVIRONMENT, settings, app, clockVars,
                   responses, hookVars, edits>>

\* The file model_config["env_file"] names; a file that does not exist reads
\* as one that sets nothing.
read_env_file(name) == envfiles[name[2]]

\* Mutant: the dotenv file before the environment.
settings_source_file_first(field, env, file) ==
    IF field \in DOMAIN file THEN "dotenv"
    ELSE IF field \in DOMAIN env THEN "env"
    ELSE "default"

\* pydantic-settings sources, highest priority first: the environment, then the
\* dotenv file; what neither gives is left to the class defaults.
settings_source(field, env, file) ==
    IF field \in DOMAIN env THEN "env"
    ELSE IF field \in DOMAIN file THEN "dotenv"
    ELSE "default"

raw_value(field, env, file) ==
    IF settings_source(field, env, file) = "env" THEN env[field] ELSE file[field]

\* Validation of one str input against the field's declared type.
coercible(field, v) == IF field = "PORT" THEN IsIntStr(v) ELSE TRUE

coerce(field, v) == IF field = "PORT" THEN StrToInt(v) ELSE v

\* Keys of the dotenv file that are no field of Settings.
extra_inputs(file) == DOMAIN file \ Fields

validation_errors(env, file) ==
    {f \in Fields : /\ settings_source(f, env, file) # "default"
                    /\ ~coercible(f, raw_value(f, env, file))}
    \cup (IF model_config_extra = "ignore" THEN {} ELSE extra_inputs(file))

build_settings(env, file, defaults) ==
    [f \in Fields |->
        IF settings_source(f, env, file) = "default" THEN defaults[f]
        ELSE coerce(f, raw_value(f, env, file))]

\* Mutant: the ValidationError is swallowed and the import goes on.
Settings_init_lenient ==
    /\ pc = "Settings()"
    /\ LET file == read_env_file(env_file)
       IN  \/ /\ validation_errors(osenv, file) = {}
              /\ settings' = build_settings(osenv, file, classDefaults)
           \/ /\ validation_errors(osenv, file) # {}
              /\ settings' = settings
    /\ pc' = "create_app"
    /\ UNCHANGED <<configVars, moduleVars, app, clockVars, responses,
                   hookVars, edits>>

\* settings = Settings(): a ValidationError leaves the import, and so the
\* process, failed.
Settings_init ==
    /\ pc = "Settings()"
    /\ LET file == read_env_file(env_file)
       IN  \/ /\ validation_errors(osenv, file) = {}
              /\ settings' = build_settings(osenv, file, classDefaults)
              /\ pc' = "create_app"
           \/ /\ validation_errors(osenv, file) # {}
              /\ settings' = settings
              /\ pc' = "failed"
    /\ UNCHANGED <<configVars, moduleVars, app, clockVars, responses,
                   hookVars, edits>>

----------------------------------------------------------------------------
(* app/main.py *)

\* app = FastAPI(...); app.include_router(health_router); @app.get("/")
create_app ==
    /\ pc = "create_app"
    /\ app' = [title       |-> settings.SERVICE_NAME,
               description |-> settings.SERVICE_DESCRIPTION,
               version     |-> settings.SERVICE_VERSION,
               docs_url    |-> "/docs",
               redoc_url   |-> "/redoc",
               routes      |-> {"/health", "/"}]
    /\ pc' = "run"
    /\ UNCHANGED <<configVars, moduleVars, settings, clockVars, responses,
                   hookVars, edits>>

\* lifespan, up to its yield: the server enters the context before it serves.
lifespan_enter ==
    /\ pc = "run"
    /\ startupLogs' = startupLogs + 1
    /\ pc' = "serving"
    /\ UNCHANGED <<configVars, moduleVars, settings, app, clockVars, responses,
                   shutdownLogs, exitPath, edits>>

\* Mutant: the lines after the yield are never reached.
after_yield_unreached(resumed) == 0

\* What the body of lifespan after its yield adds to the shutdown log: the
\* generator has no try/finally, so the lines after the yield run only when it is
\* resumed normally, not when an exception is thrown into it at the yield.
after_yield(resumed) == IF resumed THEN 1 ELSE 0

\* The serving scope is left without an exception: the server stopped by itself
\* or handled a termination signal (SIGINT, SIGTERM) by a graceful shutdown.
lifespan_exit ==
    /\ pc = "serving"
    /\ \E how \in {"normal", "signal"} : exitPath' = how
    /\ shutdownLogs' = shutdownLogs + after_yield(TRUE)
    /\ pc' = "stopped"
    /\ UNCHANGED <<configVars, moduleVars, settings, app, clockVars, responses,
                   startupLogs, edits>>

\* An exception (or a cancellation) is raised into the serving scope.
lifespan_throw ==
    /\ pc = "serving"
    /\ exitPath' = "error"
    /\ shutdownLogs' = shutdownLogs + after_yield(FALSE)
    /\ pc' = "stopped"
    /\ UNCHANGED <<configVars, moduleVars, settings, app, clockVars, responses,
                   startupLogs, edits>>

\* A request is routed to a handler while the server serves.
accepting(path) ==
    /\ pc = "serving"
    /\ path \in app.routes
    /\ Len(responses) < MaxRequests

\* What the client records of a response; epoch is the clock's epoch when it was
\* produced (bookkeeping, not part of the response).
Response(path, code, body) ==
    [path |-> path, code |-> code, body |-> body, epoch |-> clockEpoch]

\* Mutant: the status literal of the health endpoint.
root_body_healthy ==
    [service   |-> settings.SERVICE_NAME,
     version   |-> settings.SERVICE_VERSION,
     status    |-> "healthy",
     docs      |-> "/docs",
     endpoints |-> [health |-> "/health"]]

root_body ==
    [service   |-> settings.SERVICE_NAME,
     version   |-> settings.SERVICE_VERSION,
     status    |-> "running",
     docs      |-> "/docs",
     endpoints |-> [health |-> "/health"]]

\* GET /
root ==
    /\ accepting("/")
    /\ responses' = Append(responses, Response("/", 200, root_body))
    /\ UNCHANGED <<pc, configVars, moduleVars, settings, app, clockVars,
                   hookVars, edits>>

----------------------------------------------------------------------------
(* app/routes/api/health.py *)

\* app/models/models.py: the response model of GET /health.
HealthStatus(status, timestamp, service, version) ==
    [status |-> status, timestamp |-> timestamp, service |-> service,
     version |-> version]

\* Mutant: the timestamp of the first health check is kept and reused.
datetime_cached ==
    IF \E i \in 1..Len(responses) : responses[i].path = "/health"
    THEN LET first == CHOOSE i \in 1..Len(responses) :
                        /\ responses[i].path = "/health"
                        /\ \A j \in 1..(i - 1) : responses[j].path # "/health"
         IN  responses[first].body.timestamp
    ELSE now

\* datetime.now(tz=timezone.utc): a reading of the wall clock.
datetime_now == now

\* Mutant: service and version exchanged.
health_body_swapped ==
    HealthStatus("healthy", datetime_now, settings.SERVICE_VERSION,
                 settings.SERVICE_NAME)

\* Mutant: only the time of day is kept, which wraps around.
health_body_time_of_day ==
    HealthStatus("healthy", datetime_now % 2, settings.SERVICE_NAME,
                 settings.SERVICE_VERSION)

health_body ==
    HealthStatus("healthy", datetime_now, settings.SERVICE_NAME,
                 settings.SERVICE_VERSION)

\* Mutant: SERVICE_NAME is read again from os.environ on every request.
health_check_reloading ==
    /\ accepting("/health")
    /\ settings' = [settings EXCEPT
                       !.SERVICE_NAME = getenv(osenv, "SERVICE_NAME", @)]
    /\ responses' = Append(responses,
          Response("/health", 200,
                   HealthStatus("healthy", datetime_now, settings'.SERVICE_NAME,
                                settings.SERVICE_VERSION)))
    /\ UNCHANGED <<pc, configVars, moduleVars, app, clockVars, hookVars, edits>>

\* GET /health
health_check ==
    /\ accepting("/health")
    /\ responses' = Append(responses, Response("/health", 200, health_body))
    /\ UNCHANGED <<pc, configVars, moduleVars, settings, app, clockVars,
                   hookVars, edits>>

----------------------------------------------------------------------------
(* The surroundings of the process *)

Alive == pc \notin {"stopped", "failed"}

\* Time passes.
Tick ==
    /\ Alive
    /\ now < MaxClock
    /\ now' = now + 1
    /\ UNCHANGED <<pc, configVars, moduleVars, settings, app, startTime,
                   clockEpoch, responses, hookVars, edits>>

\* The wall clock is set back (an administrator, a clock synchronisation step):
\* time.time(), which datetime.now reads, then returns a lower value.
ClockSetBack ==
    /\ Alive
    /\ clockEpoch < MaxSetBacks
    /\ \E t \in 0..(now - 1) : now' = t
    /\ clockEpoch' = clockEpoch + 1
    /\ UNCHANGED <<pc, configVars, moduleVars, settings, app, startTime,
                   responses, hookVars, edits>>

\* The fields the handlers report.
ReportedFields == {"SERVICE_NAME", "SERVICE_VERSION"}

\* os.environ is changed while the process serves.
putenv ==
    /\ pc = "serving"
    /\ edits < MaxEdits
    /\ \E k \in Fields : \E v \in ValuesOf[k] :
          osenv' = WithKey(osenv, k, v)
    /\ edits' = edits + 1
    /\ UNCHANGED <<pc, startenv, dotenv, envfiles, moduleVars, settings, app,
                   clockVars, responses, hookVars>>

\* The environment-specific file is rewritten while the process serves.
write_env_file ==
    /\ pc = "serving"
    /\ edits < MaxEdits
    /\ \E k \in Fields : \E v \in ValuesOf[k] :
          envfiles' = [envfiles EXCEPT ![ENVIRONMENT] = WithKey(@, k, v)]
    /\ edits' = edits + 1
    /\ UNCHANGED <<pc, startenv, osenv, dotenv, moduleVars, settings, app,
                   clockVars, responses, hookVars>>

----------------------------------------------------------------------------
(* Initial states *)

InitWith(e, d, f, t) ==
    /\ pc = "load_dotenv"
    /\ startenv = e
    /\ osenv = e
    /\ dotenv = d
    /\ envfiles = f
    /\ ENVIRONMENT = Unbound
    /\ classDefaults = NoSettings
    /\ env_file = <<>>
    /\ settings = NoSettings
    /\ app = NoApp
    /\ now = t
    /\ startTime = t
    /\ clockEpoch = 0
    /\ responses = <<>>
    /\ startupLogs = 0
    /\ shutdownLogs = 0
    /\ exitPath = "none"
    /\ edits = 0

\* Every environment, .env and pair of .env.<name> files that together set at
\* most MaxEntries keys.
InitConfig ==
    \E e \in LayerTable[MaxEntries] :
      \E d \in LayerTable[MaxEntries - Size(e)] :
        \E dev \in LayerTable[MaxEntries - Size(e) - Size(d)] :
          \E prod \in LayerTable[MaxEntries - Size(e) - Size(d) - Size(dev)] :
            InitWith(e, d, [n \in EnvNames |-> IF n = "development" THEN dev ELSE prod], 0)

NextConfig ==
    \/ load_dotenv
    \/ read_ENVIRONMENT
    \/ class_Settings
    \/ Settings_init

SpecConfig == InitConfig /\ [][NextConfig]_vars

\* The keys a lifecycle run starts with: the fields the handlers report, the
\* field whose type is not str, and the key that selects the file.
LifecycleKeys == ReportedFields \cup {"PORT", "ENVIRONMENT"}

SingleKeyLayers ==
    {EmptyLayer} \cup UNION {{WithKey(EmptyLayer, k, v) : v \in ValuesOf[k]} :
                               k \in LifecycleKeys}

\* The three sources of a lifecycle run: nothing set, or one key set in the
\* environment, in .env or in .env.development.
SingleKeySources ==
    {<<e, d, f>> \in SingleKeyLayers \X SingleKeyLayers \X SingleKeyLayers :
        Size(e) + Size(d) + Size(f) <= 1}

FilesWith(dev) ==
    [n \in EnvNames |-> IF n = "development" THEN dev ELSE EmptyLayer]

\* The process starts at any instant of the clock.
Init ==
    \E c \in SingleKeySources :
      \E t \in 0..MaxClock :
        InitWith(c[1], c[2], FilesWith(c[3]), t)

Next ==
    \/ load_dotenv
    \/ read_ENVIRONMENT
    \/ class_Settings
    \/ Settings_init
    \/ create_app
    \/ lifespan_enter
    \/ root
    \/ health_check
    \/ lifespan_exit
    \/ lifespan_throw
    \/ Tick
    \/ ClockSetBack

Spec == Init /\ [][Next]_vars

\* The lifecycle with the configuration sources changed under the running
\* process, the clock standing still.
InitReconfig ==
    \E c \in SingleKeySources : InitWith(c[1], c[2], FilesWith(c[3]), 0)

NextReconfig ==
    \/ load_dotenv
    \/ read_ENVIRONMENT
    \/ class_Settings
    \/ Settings_init
    \/ create_app
    \/ lifespan_enter
    \/ root
    \/ health_check
    \/ lifespan_exit
    \/ lifespan_throw
    \/ putenv
    \/ write_env_file

SpecReconfig == InitReconfig /\ [][NextReconfig]_vars

----------------------------------------------------------------------------
(* Properties of configuration resolution (SpecConfig) *)

HardcodedDefaults ==
    [SERVICE_NAME        |-> "Service Name",
     SERVICE_VERSION     |-> "v0.0.1",
     SERVICE_DESCRIPTION |-> "Service Description",
     HOST                |-> "0.0.0.0",
     PORT                |-> 8010,
     LOG_LEVEL           |-> "DEBUG"]

\* The value of field f given by the first layer of ls that sets it, as a value
\* of the field's type; the hardcoded default when none does.
RECURSIVE Layered(_, _)
Layered(f, ls) ==
    IF ls = <<>> THEN HardcodedDefaults[f]
    ELSE IF f \in DOMAIN Head(ls) THEN coerce(f, Head(ls)[f])
    ELSE Layered(f, Tail(ls))

Constructed == settings # NoSettings

\* The file .env.<ENVIRONMENT> of the run.
SelectedFile == envfiles[ENVIRONMENT]

\* C1 as stated: every field of the constructed Settings equals the variable of
\* the environment the process was given if it is set, else the value in
\* .env.<ENVIRONMENT> if it has one, else the hardcoded default.
C1_PriorityLaw ==
    Constructed =>
        \A f \in Fields : settings[f] = Layered(f, <<startenv, SelectedFile>>)

\* C1 amended: every field of the constructed Settings equals the variable of
\* the environment the process was given if it is set, else the value in the
\* base .env file if it has one, else the value in .env.<ENVIRONMENT> if it has
\* one, else the hardcoded default.
C1_LayeredPriorityLaw ==
    Constructed =>
        \A f \in Fields :
            settings[f] = Layered(f, <<startenv, dotenv, SelectedFile>>)

\* All three layers set a field, environment and .env differently, and the
\* constructed Settings holds the environment's value.
C1_Witness ==
    /\ Constructed
    /\ \E f \in Fields :
          /\ f \in DOMAIN startenv /\ f \in DOMAIN dotenv /\ f \in DOMAIN SelectedFile
          /\ startenv[f] # dotenv[f]
          /\ settings[f] = coerce(f, startenv[f])

\* C10: load_dotenv copies into os.environ every key of .env that the process
\* environment does not set, and leaves the others; this is done before
\* ENVIRONMENT is read and before Settings is constructed; so a field given in
\* .env and not in the process environment is taken from .env whatever
\* .env.<ENVIRONMENT> says, and an ENVIRONMENT key of .env, when the process
\* environment has none, selects the environment-specific file.
C10_BaseDotenvLayer ==
    /\ (ENVIRONMENT # Unbound \/ Constructed) => pc # "load_dotenv"
    /\ pc # "load_dotenv" =>
          /\ DOMAIN osenv = DOMAIN startenv \cup DOMAIN dotenv
          /\ \A k \in DOMAIN startenv : osenv[k] = startenv[k]
          /\ \A k \in DOMAIN dotenv \ DOMAIN startenv : osenv[k] = dotenv[k]
    /\ (ENVIRONMENT # Unbound /\ "ENVIRONMENT" \in DOMAIN dotenv \ DOMAIN startenv) =>
          ENVIRONMENT = dotenv["ENVIRONMENT"]
    /\ Constructed =>
          /\ \A f \in (Fields \cap DOMAIN dotenv) \ DOMAIN startenv :
                settings[f] = coerce(f, dotenv[f])
          /\ "ENVIRONMENT" \in DOMAIN dotenv \ DOMAIN startenv =>
                \A f \in (Fields \cap DOMAIN envfiles[dotenv["ENVIRONMENT"]])
                            \ (DOMAIN startenv \cup DOMAIN dotenv) :
                    settings[f] = coerce(f, envfiles[dotenv["ENVIRONMENT"]][f])

\* .env selects .env.production and gives a field that .env.production gives
\* differently; the process environment gives neither; Settings holds the
\* value of .env.
C10_Witness ==
    /\ Constructed
    /\ "ENVIRONMENT" \notin DOMAIN startenv
    /\ "ENVIRONMENT" \in DOMAIN dotenv
    /\ ENVIRONMENT = "production"
    /\ \E f \in Fields :
          /\ f \notin DOMAIN startenv
          /\ f \in DOMAIN dotenv /\ f \in DOMAIN envfiles["production"]
          /\ dotenv[f] # envfiles["production"][f]
          /\ settings[f] = coerce(f, dotenv[f])

----------------------------------------------------------------------------
(* Properties of the running service (Spec, SpecReconfig) *)

HealthIndexes == {i \in 1..Len(responses) : responses[i].path = "/health"}

RootIndexes == {i \in 1..Len(responses) : responses[i].path = "/"}

Timestamp(i) == responses[i].body.timestamp

CanAsk == pc = "serving" /\ Len(responses) < MaxRequests

\* C2: once the server serves, a GET /health is always answered, and every
\* answer it has given is a 200 with status "healthy" and the SERVICE_NAME and
\* SERVICE_VERSION of the loaded Settings.
C2_HealthAlwaysHealthy ==
    /\ CanAsk => ENABLED health_check
    /\ \A i \in HealthIndexes :
          /\ responses[i].code = 200
          /\ responses[i].body.status = "healthy"
          /\ responses[i].body.service = settings.SERVICE_NAME
          /\ responses[i].body.version = settings.SERVICE_VERSION

\* A health check answered after an earlier request, by a service started with
\* SERVICE_VERSION=v2.3.4 in its environment.
C2_Witness ==
    /\ Len(responses) = 2
    /\ responses[1].path = "/"
    /\ responses[2].path = "/health"
    /\ "SERVICE_VERSION" \in DOMAIN startenv
    /\ responses[2].body.version = "v2.3.4"

\* C3: once the server serves, a GET / is always answered (the handler has no
\* failure path), and every answer is a 200 whose body is exactly service and
\* version of the loaded Settings, status "running", docs "/docs" and
\* endpoints {"health": "/health"}.
C3_RootAlwaysRunning ==
    /\ CanAsk => ENABLED root
    /\ \A i \in RootIndexes :
          /\ responses[i].code = 200
          /\ responses[i].body =
                [service   |-> settings.SERVICE_NAME,
                 version   |-> settings.SERVICE_VERSION,
                 status    |-> "running",
                 docs      |-> "/docs",
                 endpoints |-> [health |-> "/health"]]

\* GET / answered by a service whose name comes from .env.development.
C3_Witness ==
    /\ RootIndexes # {}
    /\ "SERVICE_NAME" \in DOMAIN envfiles["development"]
    /\ \E i \in RootIndexes :
          responses[i].body.service = envfiles["development"]["SERVICE_NAME"]

\* C4 as stated: of two health checks of the client, the later one never has
\* the earlier timestamp.
C4_TimestampsNonDecreasing ==
    \A i, j \in HealthIndexes : i < j => Timestamp(i) <= Timestamp(j)

\* C4 amended: of two health checks of the client between which the wall clock
\* was not set back, the later one never has the earlier timestamp.
C4_NonDecreasingWithinEpoch ==
    \A i, j \in HealthIndexes :
        (i < j /\ responses[i].epoch = responses[j].epoch) =>
            Timestamp(i) <= Timestamp(j)

\* Two health checks with the clock advancing and never set back in between.
C4_Witness ==
    \E i, j \in HealthIndexes :
        /\ i < j
        /\ responses[i].epoch = responses[j].epoch
        /\ Timestamp(i) < Timestamp(j)

\* The step is the answer to a GET /health.
HealthAnswered ==
    /\ Len(responses') = Len(responses) + 1
    /\ responses'[Len(responses')].path = "/health"

NewTimestamp == responses'[Len(responses')].body.timestamp

FieldType == [f \in Fields |-> IF f = "PORT" THEN "int" ELSE "str"]

\* Some field is supplied, by os.environ or else by .env.<ENVIRONMENT>, a
\* string that is no value of the field's declared type.
CoercionFails ==
    \E f \in Fields :
        /\ FieldType[f] = "int"
        /\ \/ f \in DOMAIN osenv /\ ~IsIntStr(osenv[f])
           \/ f \notin DOMAIN osenv /\ f \in DOMAIN SelectedFile
                /\ ~IsIntStr(SelectedFile[f])

\* C6: construction of Settings fails exactly when a field cannot be coerced to
\* its declared type; the failure is fatal: nothing is ever served, no request
\* answered, and the process goes no further.
C6_CoercionFailureIsFatal ==
    /\ pc = "failed" =>
          /\ CoercionFails
          /\ ~Constructed /\ app = NoApp
          /\ startupLogs = 0 /\ responses = <<>>
          /\ ~ENABLED Next
    /\ pc \in {"create_app", "run", "serving", "stopped"} =>
          ~CoercionFails /\ Constructed

\* .env.development gives PORT=abc and nothing else gives PORT: the import has
\* failed.
C6_Witness ==
    /\ pc = "failed"
    /\ "PORT" \notin DOMAIN osenv
    /\ "PORT" \in DOMAIN envfiles["development"]
    /\ envfiles["development"]["PORT"] = "abc"

\* C7: once constructed, settings never changes, whatever requests are handled
\* and however os.environ and the environment file change afterwards.
C7_SettingsFrozen == [][Constructed => settings' = settings]_vars

\* A request has been answered and os.environ now gives a SERVICE_NAME that is
\* not the one of settings.
C7_Witness ==
    /\ Constructed
    /\ HealthIndexes # {}
    /\ "SERVICE_NAME" \in DOMAIN osenv
    /\ osenv["SERVICE_NAME"] # settings.SERVICE_NAME
    /\ \E i \in HealthIndexes : responses[i].body.service = settings.SERVICE_NAME

\* C8 as stated: the startup lines and the shutdown lines are each logged
\* exactly once, the shutdown lines on every way out of the serving scope.
C8_HooksOnEveryExit ==
    /\ startupLogs <= 1 /\ shutdownLogs <= 1
    /\ pc \in {"serving", "stopped"} => startupLogs = 1
    /\ pc = "stopped" => shutdownLogs = 1

\* C8 amended: the startup lines are logged exactly once, before serving; the
\* shutdown lines at most once: exactly once when the serving scope is left
\* normally or by a handled termination signal, and not at all when it is left
\* by an error raised into it.
C8_HooksOnNormalExit ==
    /\ startupLogs <= 1 /\ shutdownLogs <= 1
    /\ pc \in {"serving", "stopped"} <=> startupLogs = 1
    /\ (pc = "stopped" /\ exitPath \in {"normal", "signal"}) <=> shutdownLogs = 1
    /\ (pc = "stopped" /\ exitPath = "error") => shutdownLogs = 0

\* The server handled a termination signal after answering a request, and the
\* shutdown lines were logged.
C8_Witness ==
    /\ pc = "stopped"
    /\ exitPath = "signal"
    /\ responses # <<>>
    /\ startupLogs = 1 /\ shutdownLogs = 1

Phase ==
    CASE pc = "serving" -> "serving"
      [] pc = "stopped" -> "shutdown"
      [] pc = "failed"  -> "aborted"
      [] OTHER          -> "starting"

\* C9: the process is starting, then serving, until it shuts down; Settings is
\* constructed before serving begins and before any request is answered;
\* serving never goes back to starting; shutdown is entered from serving only,
\* and nothing happens after it.
C9_LifecycleOrder ==
    [][/\ Phase' # Phase =>
             \/ Phase = "starting" /\ Phase' \in {"serving", "aborted"}
             \/ Phase = "serving" /\ Phase' = "shutdown"
       /\ pc' \in {"create_app", "run", "serving", "stopped"} => Constructed'
       /\ responses' # responses => Phase = "serving" /\ Constructed
       /\ Phase # "shutdown"]_vars

\* The process has shut down after answering requests.
C9_Witness ==
    /\ Phase = "shutdown"
    /\ Len(responses) = MaxRequests
    /\ Constructed

====
